---------------------------- MODULE Spec2Model ----------------------------
(***************************************************************************)
(* Model of infa_mcc_utils:                                                *)
(*   catalog_sources/mcc_run_scanner.py  (resolve -> launch -> monitor)    *)
(*   classifications/mcc_import_classification.py  (reconcile)             *)
(*                                                                         *)
(* Strings are sequences of one-character strings so that str.lower() and  *)
(* str.upper() are computed character by character.                        *)
(***************************************************************************)
EXTENDS Integers, Sequences, FiniteSets, TLC

(***************************************************************************)
(* Bounds of the model                                                     *)
(***************************************************************************)
MaxHits == 3
MaxPolls == 4
MaxLag == 1
MaxPollInterval == 2
MaxTimeout == 3
MaxStore == 2
MaxImports == 2
MaxFiles == 3
MaxListing == 2
MaxSeconds == 1

(***************************************************************************)
(* State                                                                   *)
(***************************************************************************)
VARIABLES
    pc,             \* where the program stands
    argc1,          \* len(sys.argv) == 1
    sourceName,     \* args.name
    flags,          \* the capability flags given on the command line
    no_wait,        \* args.no_wait
    poll_interval,  \* args.poll_interval / monitor_job's poll_interval
    timeout,        \* args.timeout / monitor_job's timeout
    testClock,      \* the clock only moves in time.sleep, by the time asked
    searchResults,  \* what search_assets answered
    resolved,       \* (found, catalogSource) of search_catalog_source
    launchResponse, \* what run_catalog_source_job answered
    launched,       \* (success, job_info) of execute_catalog_source
    clock,          \* time.time(), whole seconds
    start_time,     \* monitor_job's start_time
    history,        \* the outcomes of the get_job_status calls so far
    monitored,      \* (success, final_status) of monitor_job
    calls,          \* the remote calls issued so far
    auth,           \* how IDMCAuth(...) and CDGC(...) ended
    usage,          \* how log_usage(...) ended
    exit_code,      \* the exit status of the process
    ipc,            \* where the importer stands
    store,          \* the classifications of the remote store, in list order
    next_id,        \* the id the remote store gives to the next new record
    imported,       \* the import_classification calls started so far
    prepared,       \* the payload of the call under way
    existing,       \* what classification_exists returned, if it returned
    icalls,         \* the remote calls of the importer so far
    outcomes,       \* how each finished import_classification call ended
    snapshots,      \* the remote store at the start and after each call
    returned,       \* what each finished import_classification call returned
    bpc,            \* where import_all_from_directory stands
    is_dir,         \* whether the path given is a directory
    directory,      \* the entries of the directory, in os.listdir order
    batch_update,   \* the update_if_exists of the batch
    json_files,     \* the *.json entries, as positions in the directory
    attempted,      \* the files the loop has taken so far
    batch_return,   \* what import_all_from_directory returned
    epc,            \* where export_all_classifications stands
    elisting,       \* the list get_all_classifications returns to the exporter
    taken,          \* the listed classifications the export loop has taken
    success_count,  \* the exporter's counter of saved classifications
    failed_count,   \* the exporter's counter of failed classifications
    disk,           \* the files of the output directory, by name
    wall_clock,     \* the wall clock of the exporter, in seconds
    reread          \* the exported files read back and prepared for import

argVars == <<argc1, sourceName, flags, no_wait, poll_interval, timeout, testClock>>

searchVars == <<searchResults, resolved>>

launchVars == <<launchResponse, launched>>

monitorVars == <<clock, start_time, history, monitored>>

scanVars ==
    <<pc, argVars, searchVars, launchVars, monitorVars, calls, auth, usage,
      exit_code>>

importVars ==
    <<ipc, store, next_id, imported, prepared, existing, icalls, outcomes,
      snapshots, returned>>

batchVars ==
    <<bpc, is_dir, directory, batch_update, json_files, attempted,
      batch_return>>

exportVars ==
    <<epc, elisting, taken, success_count, failed_count, disk, wall_clock,
      reread>>

vars == <<scanVars, importVars, batchVars, exportVars>>

(***************************************************************************)
(* str.lower() / str.upper() on ASCII text                                 *)
(***************************************************************************)
LowerAlpha ==
    << "a","b","c","d","e","f","g","h","i","j","k","l","m",
       "n","o","p","q","r","s","t","u","v","w","x","y","z" >>

UpperAlpha ==
    << "A","B","C","D","E","F","G","H","I","J","K","L","M",
       "N","O","P","Q","R","S","T","U","V","W","X","Y","Z" >>

LowerChar(c) ==
    IF \E i \in 1..26 : UpperAlpha[i] = c
    THEN LowerAlpha[CHOOSE i \in 1..26 : UpperAlpha[i] = c]
    ELSE c

UpperChar(c) ==
    IF \E i \in 1..26 : LowerAlpha[i] = c
    THEN UpperAlpha[CHOOSE i \in 1..26 : LowerAlpha[i] = c]
    ELSE c

Lower(s) == [i \in 1..Len(s) |-> LowerChar(s[i])]

Upper(s) == [i \in 1..Len(s) |-> UpperChar(s[i])]

(***************************************************************************)
(* Catalog source names and search responses                               *)
(***************************************************************************)
Names ==
    { <<"a","b">>, <<"A","B">>, <<"A","b">>, <<"a","b","c">>, <<"x","_","1">> }

\* args.name is not required: without -n it is None.
NoName == <<"None">>

\* An asset of the hit list: summary['core.name'] and
\* systemAttributes['core.origin'].  Origins are unique per asset.
Asset(n, o) == [name |-> n, origin |-> o]

NoAsset == [name |-> <<>>, origin |-> 0]

SeqsUpTo(S, n) == UNION { [1..k -> S] : k \in 0..n }

HitLists(n) ==
    { [i \in 1..Len(ns) |-> Asset(ns[i], i)] : ns \in SeqsUpTo(Names, n) }

\* What cdgc.search.search_assets can do: raise, return a falsy value,
\* return a document without summary.total_hits, or return a page of hits.
\* The request asks for from=0, size=100, so a page of fewer than 100 hits
\* is the whole result and total_hits is its length.
SearchResponse(k, h) == [kind |-> k, total_hits |-> Len(h), hits |-> h]

AllResponses ==
    { SearchResponse("raise", <<>>), SearchResponse("falsy", <<>>),
      SearchResponse("malformed", <<>>) }
    \cup { SearchResponse("ok", h) : h \in HitLists(MaxHits) }

\* Mutant: the names are compared as they are written.
FirstExactIndex_CaseSensitive(hits, name) ==
    IF \E i \in 1..Len(hits) : hits[i].name = name
    THEN CHOOSE i \in 1..Len(hits) :
            /\ hits[i].name = name
            /\ \A j \in 1..(i-1) : hits[j].name # name
    ELSE 0

\* for asset in hits: if asset name .lower() == name.lower(): return
FirstExactIndex(hits, name) ==
    IF \E i \in 1..Len(hits) : Lower(hits[i].name) = Lower(name)
    THEN CHOOSE i \in 1..Len(hits) :
            /\ Lower(hits[i].name) = Lower(name)
            /\ \A j \in 1..(i-1) : Lower(hits[j].name) # Lower(name)
    ELSE 0

SearchReturn(f, a, l) == [found |-> f, asset |-> a, log |-> l, raised |-> FALSE]

\* Mutant: without an exact match the search reports not-found.
search_catalog_source_NoFallback(resp, name) ==
    IF resp.kind \in {"raise", "malformed"}
    THEN SearchReturn(FALSE, NoAsset, "error")
    ELSE IF resp.kind = "ok" /\ resp.total_hits > 0
    THEN IF name = NoName \/ Len(resp.hits) = 0
         THEN SearchReturn(FALSE, NoAsset, "error")
         ELSE IF FirstExactIndex(resp.hits, name) # 0
         THEN SearchReturn(TRUE,
                           resp.hits[FirstExactIndex(resp.hits, name)],
                           "none")
         ELSE SearchReturn(FALSE, NoAsset, "warn_not_found")
    ELSE SearchReturn(FALSE, NoAsset, "warn_not_found")

\* Mutant: the response is read outside the try block, so that an error
\* while reading it leaves the function as an exception.
search_catalog_source_ReadsOutsideTry(resp, name) ==
    IF resp.kind = "malformed"
       \/ (resp.kind = "ok" /\ resp.total_hits > 0
             /\ (name = NoName \/ Len(resp.hits) = 0))
    THEN [found |-> FALSE, asset |-> NoAsset, log |-> "none", raised |-> TRUE]
    ELSE IF resp.kind = "raise"
    THEN SearchReturn(FALSE, NoAsset, "error")
    ELSE IF resp.kind = "ok" /\ resp.total_hits > 0
    THEN IF FirstExactIndex(resp.hits, name) # 0
         THEN SearchReturn(TRUE,
                           resp.hits[FirstExactIndex(resp.hits, name)],
                           "none")
         ELSE SearchReturn(TRUE, resp.hits[1], "warn_no_exact_match")
    ELSE SearchReturn(FALSE, NoAsset, "warn_not_found")

\* search_catalog_source(cdgc, name): the value returned for a given
\* outcome of the remote search, with the message logged on the way out.
search_catalog_source(resp, name) ==
    IF resp.kind \in {"raise", "malformed"}
    THEN SearchReturn(FALSE, NoAsset, "error")
    ELSE IF resp.kind = "ok" /\ resp.total_hits > 0
    THEN IF name = NoName \/ Len(resp.hits) = 0
         THEN SearchReturn(FALSE, NoAsset, "error")
         ELSE IF FirstExactIndex(resp.hits, name) # 0
         THEN SearchReturn(TRUE,
                           resp.hits[FirstExactIndex(resp.hits, name)],
                           "none")
         ELSE SearchReturn(TRUE, resp.hits[1], "warn_no_exact_match")
    ELSE SearchReturn(FALSE, NoAsset, "warn_not_found")

(***************************************************************************)
(* Job status documents returned by cdgc.jobs.get_job_status               *)
(***************************************************************************)
S_COMPLETED ==
    <<"C","O","M","P","L","E","T","E","D">>

S_SUCCESS ==
    <<"S","U","C","C","E","S","S">>

S_SUCCESSFUL ==
    <<"S","U","C","C","E","S","S","F","U","L">>

S_PARTIAL_COMPLETED ==
    <<"P","A","R","T","I","A","L","_","C","O","M","P","L","E","T","E","D">>

S_FAILED ==
    <<"F","A","I","L","E","D">>

S_ERROR ==
    <<"E","R","R","O","R">>

S_CANCELLED ==
    <<"C","A","N","C","E","L","L","E","D">>

S_RUNNING ==
    <<"R","U","N","N","I","N","G">>

S_completed ==
    <<"c","o","m","p","l","e","t","e","d">>

S_Partial_Completed ==
    <<"P","a","r","t","i","a","l","_","C","o","m","p","l","e","t","e","d">>

S_Failed ==
    <<"F","a","i","l","e","d">>

S_running ==
    <<"r","u","n","n","i","n","g">>

\* The remote status strings of the model: the nine words the monitor
\* knows, in the remote's spelling and in other letter cases.
TerminalStatuses ==
    { S_COMPLETED, S_SUCCESS, S_SUCCESSFUL, S_PARTIAL_COMPLETED, S_FAILED,
      S_ERROR, S_CANCELLED, S_completed, S_Partial_Completed, S_Failed }

RunningStatuses == { S_RUNNING, S_running }

\* One get_job_status call: a document with a status string ("ok"), a
\* document without the "status" key ("nokey"), a document whose status is
\* null ("null"), a CDGCAPIError ("api_error") or another exception
\* ("error").
StatusDoc(k, s) == [kind |-> k, status |-> s]

NoStatus == StatusDoc("none", <<>>)

AllOutcomes ==
    { StatusDoc("ok", s) : s \in TerminalStatuses \cup RunningStatuses }
    \cup { StatusDoc("nokey", <<>>), StatusDoc("null", <<>>),
           StatusDoc("api_error", <<>>), StatusDoc("error", <<>>) }

\* Mutant: the state string is compared as the remote spelled it.
JobStateOf_NoUpper(doc) == IF doc.kind = "ok" THEN doc.status ELSE <<>>

\* job_state = status.get("status", "").upper()
JobStateOf(doc) == IF doc.kind = "ok" THEN Upper(doc.status) ELSE <<>>

\* Mutant: PARTIAL_COMPLETED sits in the list of failed states.
ClassifyJobState_PartialFails(job_state) ==
    IF job_state \in { S_COMPLETED, S_SUCCESS, S_SUCCESSFUL } THEN "success"
    ELSE IF job_state \in { S_PARTIAL_COMPLETED, S_FAILED, S_ERROR, S_CANCELLED }
    THEN "failed"
    ELSE "running"

\* The three membership tests on job_state, in the order of the code.
ClassifyJobState(job_state) ==
    IF job_state \in { S_COMPLETED, S_SUCCESS, S_SUCCESSFUL } THEN "success"
    ELSE IF job_state \in { S_PARTIAL_COMPLETED } THEN "partial"
    ELSE IF job_state \in { S_FAILED, S_ERROR, S_CANCELLED } THEN "failed"
    ELSE "running"

\* Mutant: the operands of the subtraction are swapped.
TimedOut_Swapped(now, start, limit, frac) ==
    \/ start - now > limit
    \/ start - now = limit /\ frac

\* Mutant: the check counts the coming sleep in, so that a timeout below
\* the poll interval ends the first iteration.
TimedOut_Eager(now, start, limit, frac) ==
    \/ now - start + poll_interval > limit
    \/ now - start + poll_interval = limit /\ frac

\* Mutant: the monitor gives up as soon as the timeout is reached.
TimedOut_NotStrict(now, start, limit, frac) == now - start >= limit

\* time.time() - start_time > timeout.  The clock of the model counts whole
\* seconds; frac says that a fraction of a second has passed on top of them.
TimedOut(now, start, limit, frac) ==
    \/ now - start > limit
    \/ now - start = limit /\ frac

MonitorReturn(ok, doc, h) == [success |-> ok, status |-> doc, handler |-> h]

\* Mutant: an exception of get_job_status is logged and the loop goes on.
MonitorOnStatus_Retry(doc) ==
    IF doc.kind \in {"api_error", "error"}
    THEN [next |-> "mon_sleep", result |-> MonitorReturn(FALSE, NoStatus, "none")]
    ELSE IF doc.kind = "null"
    THEN [next |-> "mon_done", result |-> MonitorReturn(FALSE, NoStatus, "other")]
    ELSE IF ClassifyJobState(JobStateOf(doc)) \in {"success", "partial"}
    THEN [next |-> "mon_done", result |-> MonitorReturn(TRUE, doc, "none")]
    ELSE IF ClassifyJobState(JobStateOf(doc)) = "failed"
    THEN [next |-> "mon_done", result |-> MonitorReturn(FALSE, NoStatus, "api")]
    ELSE [next |-> "mon_sleep", result |-> MonitorReturn(FALSE, NoStatus, "none")]

\* The part of one loop iteration after the status fetch: where the monitor
\* goes and what it returns, decided by the outcome of get_job_status.
MonitorOnStatus(doc) ==
    IF doc.kind = "api_error"
    THEN [next |-> "mon_done", result |-> MonitorReturn(FALSE, NoStatus, "api")]
    ELSE IF doc.kind \in {"error", "null"}
    THEN [next |-> "mon_done", result |-> MonitorReturn(FALSE, NoStatus, "other")]
    ELSE IF ClassifyJobState(JobStateOf(doc)) \in {"success", "partial"}
    THEN [next |-> "mon_done", result |-> MonitorReturn(TRUE, doc, "none")]
    ELSE IF ClassifyJobState(JobStateOf(doc)) = "failed"
    THEN [next |-> "mon_done", result |-> MonitorReturn(FALSE, NoStatus, "api")]
    ELSE [next |-> "mon_sleep", result |-> MonitorReturn(FALSE, NoStatus, "none")]

(***************************************************************************)
(* Capabilities and the launch                                             *)
(***************************************************************************)
CapabilityNames ==
    << "Metadata Extraction", "Data Profiling", "Data Classification",
       "Data Quality", "Relationship Discovery", "Glossary Association",
       "Lineage Discovery" >>

CapabilityFlags == 1..Len(CapabilityNames)

RECURSIVE CapabilitiesFrom(_, _)
\* capabilities = []; one append per flag that is set, in the fixed order.
CapabilitiesFrom(given, i) ==
    IF i > Len(CapabilityNames) THEN <<>>
    ELSE (IF i \in given THEN <<CapabilityNames[i]>> ELSE <<>>)
         \o CapabilitiesFrom(given, i + 1)

\* Mutant: the last flag appends the label of the flag before it.
BuildCapabilities_WrongLabel(given) ==
    CapabilitiesFrom(given \ {Len(CapabilityNames)}, 1)
    \o (IF Len(CapabilityNames) \in given
        THEN <<CapabilityNames[Len(CapabilityNames) - 1]>> ELSE <<>>)

BuildCapabilities(given) == CapabilitiesFrom(given, 1)

\* One run_catalog_source_job call: a result with a job id ("job"), a result
\* without the jobId key ("no_job_id"), with an empty jobId ("empty_job_id"),
\* a null result ("null"), a CDGCAPIError whose text holds "API Error 500"
\* followed by a JSON body ("api500_json"), by a broken JSON body
\* ("api500_badjson"), by no body ("api500_text"), another CDGCAPIError
\* ("api_other") or another exception ("error").
LaunchResponse(k, j, u) == [kind |-> k, jobId |-> j, jobUri |-> u]

AllLaunchResponses ==
    { LaunchResponse("job", "J1", u) : u \in {"", "uri"} }
    \cup { LaunchResponse(k, "", "") :
             k \in { "no_job_id", "empty_job_id", "null", "api500_json",
                     "api500_badjson", "api500_text", "api_other", "error" } }

JobInfo(j, u, n, o) ==
    [jobId |-> j, jobUri |-> u, catalogSourceName |-> n, catalogSourceId |-> o]

NoJobInfo == JobInfo("", "", <<>>, 0)

LaunchReturn(ok, info) == [success |-> ok, job_info |-> info, raised |-> FALSE]

\* Mutant: the job id is only tested for presence, not for being empty.
execute_catalog_source_KeyPresent(resp, catalogSource) ==
    IF resp.kind \in {"job", "empty_job_id"}
    THEN LaunchReturn(TRUE, JobInfo(resp.jobId, resp.jobUri,
                                    catalogSource.name, catalogSource.origin))
    ELSE LaunchReturn(FALSE, NoJobInfo)

\* Mutant: the extraction of the server message is not guarded, so that a
\* broken JSON body leaves the function as an exception.
execute_catalog_source_ExtractUnguarded(resp, catalogSource) ==
    IF resp.kind \in {"job", "empty_job_id"} /\ resp.jobId # ""
    THEN LaunchReturn(TRUE, JobInfo(resp.jobId, resp.jobUri,
                                    catalogSource.name, catalogSource.origin))
    ELSE IF resp.kind = "api500_badjson"
    THEN [success |-> FALSE, job_info |-> NoJobInfo, raised |-> TRUE]
    ELSE LaunchReturn(FALSE, NoJobInfo)

\* execute_catalog_source(cdgc, catalogSource, capabilities): the value
\* returned for a given outcome of the remote run-job call.
execute_catalog_source(resp, catalogSource) ==
    IF resp.kind \in {"job", "no_job_id", "empty_job_id"}
    THEN \* job_id = result.get('jobId'); if job_id: ... else: ...
         IF resp.kind # "no_job_id" /\ resp.jobId # ""
         THEN LaunchReturn(TRUE, JobInfo(resp.jobId, resp.jobUri,
                                         catalogSource.name,
                                         catalogSource.origin))
         ELSE LaunchReturn(FALSE, NoJobInfo)
    ELSE IF resp.kind \in {"api500_json", "api500_badjson", "api500_text",
                           "api_other"}
    THEN \* except CDGCAPIError: the message is extracted inside a try of
         \* its own, whose bare except only logs; then return False, None
         LaunchReturn(FALSE, NoJobInfo)
    ELSE \* except Exception (a null result ends here: result.get fails)
         LaunchReturn(FALSE, NoJobInfo)

\* A remote call as the client sees it leave.
RemoteCall(op, origin, job, caps) ==
    [op |-> op, origin |-> origin, job |-> job, caps |-> caps]

NoSearchResults == SearchResponse("none", <<>>)

NoLaunchResponse == LaunchResponse("none", "", "")

(***************************************************************************)
(* search_catalog_source and execute_catalog_source as steps               *)
(***************************************************************************)
\* search_catalog_source: one search_assets call, answered from R.
SearchCall(R) ==
    /\ pc = "search"
    /\ \E r \in R :
        /\ searchResults' = r
        /\ resolved' = search_catalog_source(r, sourceName)
    /\ calls' = Append(calls, RemoteCall("search_assets", 0, "", <<>>))
    /\ pc' = "searched"
    /\ UNCHANGED <<exportVars, batchVars, importVars,
                   argVars, launchVars, monitorVars, auth, usage, exit_code>>

\* execute_catalog_source: one run_catalog_source_job call, answered from L.
LaunchCall(L) ==
    /\ pc = "launch"
    /\ \E r \in L :
        /\ launchResponse' = r
        /\ launched' = execute_catalog_source(r, resolved.asset)
    /\ calls' = Append(calls,
                       RemoteCall("run_catalog_source_job",
                                  resolved.asset.origin, "",
                                  BuildCapabilities(flags)))
    /\ pc' = "launched"
    /\ UNCHANGED <<exportVars, batchVars, importVars,
                   argVars, searchVars, monitorVars, auth, usage, exit_code>>

(***************************************************************************)
(* monitor_job                                                             *)
(***************************************************************************)
\* start_time = time.time()
MonStart ==
    /\ pc = "mon_start"
    /\ start_time' = clock
    /\ pc' = "mon_check"
    /\ UNCHANGED <<exportVars, batchVars, importVars,
                   argVars, searchVars, launchVars, clock, history, monitored,
                   calls, auth, usage, exit_code>>

\* Mutant: the status is fetched before the elapsed time is tested.
MonCheck_AfterFetch ==
    /\ pc = "mon_check"
    /\ \E frac \in (IF testClock THEN {FALSE} ELSE BOOLEAN) :
        IF TimedOut(clock, start_time, timeout, frac)
        THEN /\ monitored' = MonitorReturn(FALSE, NoStatus, "timeout")
             /\ pc' = "mon_done"
             /\ history' = Append(history, StatusDoc("ok", S_RUNNING))
             /\ calls' = Append(calls,
                                RemoteCall("get_job_status", 0,
                                           launched.job_info.jobId, <<>>))
        ELSE /\ pc' = "mon_fetch"
             /\ UNCHANGED <<monitored, history, calls>>
    /\ UNCHANGED <<exportVars, batchVars, importVars,
                   argVars, searchVars, launchVars, clock, start_time, auth,
                   usage, exit_code>>

\* Mutant: a timeout cancels the remote job before it is reported.
MonCheck_Cancels ==
    /\ pc = "mon_check"
    /\ \E frac \in (IF testClock THEN {FALSE} ELSE BOOLEAN) :
        IF TimedOut(clock, start_time, timeout, frac)
        THEN /\ monitored' = MonitorReturn(FALSE, NoStatus, "timeout")
             /\ pc' = "mon_done"
             /\ calls' = Append(calls,
                                RemoteCall("cancel_job", 0,
                                           launched.job_info.jobId, <<>>))
        ELSE /\ pc' = "mon_fetch"
             /\ UNCHANGED <<monitored, calls>>
    /\ UNCHANGED <<exportVars, batchVars, importVars,
                   argVars, searchVars, launchVars, clock, start_time, history,
                   auth, usage, exit_code>>

\* Top of the loop: the timeout check.  TimeoutError is caught by the
\* function's own handler, which returns (False, None).
MonCheck ==
    /\ pc = "mon_check"
    /\ \E frac \in (IF testClock THEN {FALSE} ELSE BOOLEAN) :
        IF TimedOut(clock, start_time, timeout, frac)
        THEN /\ monitored' = MonitorReturn(FALSE, NoStatus, "timeout")
             /\ pc' = "mon_done"
        ELSE /\ pc' = "mon_fetch"
             /\ UNCHANGED monitored
    /\ UNCHANGED <<exportVars, batchVars, importVars,
                   argVars, searchVars, launchVars, clock, start_time, history,
                   calls, auth, usage, exit_code>>

\* status = cdgc.jobs.get_job_status(job_id), answered from O, and the
\* tests on job_state that follow it.
MonFetch(O) ==
    /\ pc = "mon_fetch"
    /\ Len(history) < MaxPolls
    /\ \E doc \in O :
        /\ history' = Append(history, doc)
        /\ pc' = MonitorOnStatus(doc).next
        /\ monitored' = (IF MonitorOnStatus(doc).next = "mon_done"
                         THEN MonitorOnStatus(doc).result
                         ELSE monitored)
    /\ calls' = Append(calls,
                       RemoteCall("get_job_status", 0,
                                  launched.job_info.jobId, <<>>))
    /\ UNCHANGED <<exportVars, batchVars, importVars,
                   argVars, searchVars, launchVars, clock, start_time, auth,
                   usage, exit_code>>

\* time.sleep(poll_interval): ValueError for a negative interval, caught by
\* the last handler.  The clock moves by the interval plus a lag: the time
\* the status fetch took and any oversleep.
MonSleep ==
    /\ pc = "mon_sleep"
    /\ IF poll_interval < 0
       THEN /\ monitored' = MonitorReturn(FALSE, NoStatus, "other")
            /\ pc' = "mon_done"
            /\ UNCHANGED clock
       ELSE /\ \E lag \in (IF testClock THEN {0} ELSE 0..MaxLag) :
                clock' = clock + poll_interval + lag
            /\ pc' = "mon_check"
            /\ UNCHANGED monitored
    /\ UNCHANGED <<exportVars, batchVars, importVars,
                   argVars, searchVars, launchVars, start_time, history, calls,
                   auth, usage, exit_code>>

(***************************************************************************)
(* main                                                                    *)
(***************************************************************************)
Exit(code) ==
    /\ pc' = "exit"
    /\ exit_code' = code

\* Mutant: the capability list is not tested.
MainStart_NoCapabilityCheck ==
    /\ pc = "main"
    /\ IF argc1 THEN Exit(0)
       ELSE pc' = "auth" /\ UNCHANGED exit_code
    /\ UNCHANGED <<exportVars, batchVars, importVars,
                   argVars, searchVars, launchVars, monitorVars, calls, auth,
                   usage>>

\* Argument handling up to the capability check: sys.exit(0) after the help
\* text when no argument was given, sys.exit(1) when no capability flag is
\* set.
MainStart ==
    /\ pc = "main"
    /\ IF argc1 THEN Exit(0)
       ELSE IF BuildCapabilities(flags) = <<>> THEN Exit(1)
       ELSE pc' = "auth" /\ UNCHANGED exit_code
    /\ UNCHANGED <<exportVars, batchVars, importVars,
                   argVars, searchVars, launchVars, monitorVars, calls, auth,
                   usage>>

\* auth = IDMCAuth(...); cdgc = CDGC(...): IDMCAuthenticationError and any
\* other exception end in sys.exit(1).
MainAuth ==
    /\ pc = "auth"
    /\ \E a \in {"ok", "auth_error", "error"} :
        /\ auth' = a
        /\ IF a = "ok" THEN pc' = "search" /\ UNCHANGED exit_code ELSE Exit(1)
    /\ calls' = Append(calls, RemoteCall("login", 0, "", <<>>))
    /\ UNCHANGED <<exportVars, batchVars, importVars,
                   argVars, searchVars, launchVars, monitorVars, usage>>

\* Mutant: the result of the search is not tested.
MainAfterSearch_Unchecked ==
    /\ pc = "searched"
    /\ pc' = "launch"
    /\ UNCHANGED <<exportVars, batchVars, importVars,
                   argVars, searchVars, launchVars, monitorVars, calls, auth,
                   usage, exit_code>>

\* if not found: sys.exit(1)
MainAfterSearch ==
    /\ pc = "searched"
    /\ IF resolved.found THEN pc' = "launch" /\ UNCHANGED exit_code
       ELSE Exit(1)
    /\ UNCHANGED <<exportVars, batchVars, importVars,
                   argVars, searchVars, launchVars, monitorVars, calls, auth,
                   usage>>

\* Mutant: a failed launch is tried again.
MainAfterLaunch_Retry ==
    /\ pc = "launched"
    /\ IF ~launched.success THEN pc' = "launch" /\ UNCHANGED exit_code
       ELSE IF no_wait THEN pc' = "log_usage" /\ UNCHANGED exit_code
       ELSE pc' = "mon_start" /\ UNCHANGED exit_code
    /\ UNCHANGED <<exportVars, batchVars, importVars,
                   argVars, searchVars, launchVars, monitorVars, calls, auth,
                   usage>>

\* Mutant: the result of the launch is not tested.
MainAfterLaunch_Unchecked ==
    /\ pc = "launched"
    /\ IF no_wait THEN pc' = "log_usage" /\ UNCHANGED exit_code
       ELSE pc' = "mon_start" /\ UNCHANGED exit_code
    /\ UNCHANGED <<exportVars, batchVars, importVars,
                   argVars, searchVars, launchVars, monitorVars, calls, auth,
                   usage>>

\* Mutant: the job is monitored whatever --no-wait says.
MainAfterLaunch_AlwaysMonitors ==
    /\ pc = "launched"
    /\ IF ~launched.success THEN Exit(1)
       ELSE pc' = "mon_start" /\ UNCHANGED exit_code
    /\ UNCHANGED <<exportVars, batchVars, importVars, argVars, searchVars,
                   launchVars, monitorVars, calls, auth, usage>>

\* if not success: sys.exit(1); then monitor unless --no-wait
MainAfterLaunch ==
    /\ pc = "launched"
    /\ IF ~launched.success THEN Exit(1)
       ELSE IF no_wait THEN pc' = "log_usage" /\ UNCHANGED exit_code
       ELSE pc' = "mon_start" /\ UNCHANGED exit_code
    /\ UNCHANGED <<exportVars, batchVars, importVars,
                   argVars, searchVars, launchVars, monitorVars, calls, auth,
                   usage>>

\* Mutant: a failed monitor is logged and the script runs on to its end.
MainAfterMonitor_NoExit ==
    /\ pc = "mon_done"
    /\ pc' = "log_usage"
    /\ UNCHANGED <<exportVars, batchVars, importVars,
                   argVars, searchVars, launchVars, monitorVars, calls, auth,
                   usage, exit_code>>

\* success, final_status = monitor_job(...); sys.exit(1) unless success
MainAfterMonitor ==
    /\ pc = "mon_done"
    /\ IF monitored.success THEN pc' = "log_usage" /\ UNCHANGED exit_code
       ELSE Exit(1)
    /\ UNCHANGED <<exportVars, batchVars, importVars,
                   argVars, searchVars, launchVars, monitorVars, calls, auth,
                   usage>>

\* log_usage(...): an exception ends in sys.exit(1); otherwise the script
\* runs to its end.
MainLogUsage ==
    /\ pc = "log_usage"
    /\ \E u \in {"ok", "error"} :
        /\ usage' = u
        /\ Exit(IF u = "ok" THEN 0 ELSE 1)
    /\ UNCHANGED <<exportVars, batchVars, importVars,
                   argVars, searchVars, launchVars, monitorVars, calls, auth>>

(***************************************************************************)
(* classifications/mcc_import_classification.py                            *)
(*                                                                         *)
(* A classification is a dictionary: a function from field names to        *)
(* values.  The remote store keeps its records in the order in which       *)
(* get_all_classifications lists them; a new record goes to the end and    *)
(* gets a fresh id; an update replaces the fields of the record with the   *)
(* given id.  A list call that raises changes nothing; a create or update  *)
(* call that raises may or may not have been carried out by the remote.    *)
(***************************************************************************)
ClassNames == { <<"p">>, <<"P">>, <<"q">> }

Classification(n, d) == [name |-> n, description |-> d]

\* An exported file also carries the export metadata and the id the record
\* had in the organisation it was exported from.
Exported(n, d, i) ==
    [name |-> n, description |-> d, id |-> i, export_date |-> "t",
     export_org |-> "o", export_user |-> "u"]

LocalRecords ==
    { Classification(n, "d1") : n \in ClassNames }
        \cup { Exported(<<"p">>, "d1", 2) }

\* A record as the remote store keeps it: the payload under the given id.
Stored(i, payload) ==
    [f \in (DOMAIN payload) \cup {"id"} |->
        IF f = "id" THEN i ELSE payload[f]]

InitialStores ==
    UNION { { [k \in 1..len |-> Stored(k, Classification(ns[k], "d0"))] :
                ns \in [1..len -> ClassNames] } : len \in 0..MaxStore }

\* classification.get('name', 'Unknown')
NameOf(c) ==
    IF "name" \in DOMAIN c THEN c["name"] ELSE <<"U","n","k","n","o","w","n">>

MetadataFields == {"export_date", "export_org", "export_user", "id"}

\* prepare_classification_for_import(classification)
prepare_classification_for_import(c) ==
    [f \in (DOMAIN c) \ MetadataFields |-> c[f]]

\* Mutant: no remote record is ever recognised as the one being imported.
classification_exists_NeverFinds(listing, name) == <<>>

\* Mutant: the last record of the same name is taken, not the first.
classification_exists_LastMatch(listing, name) ==
    LET I == { i \in 1..Len(listing) :
                 Lower(NameOf(listing[i])) = Lower(name) }
    IN IF I = {} THEN <<>>
       ELSE <<listing[CHOOSE i \in I : \A j \in I : i >= j]>>

\* Mutant: names are compared as they are written.
classification_exists_CaseSensitive(listing, name) ==
    LET I == { i \in 1..Len(listing) : NameOf(listing[i]) = name }
    IN IF I = {} THEN <<>>
       ELSE <<listing[CHOOSE i \in I : \A j \in I : i <= j]>>

\* classification_exists(client, classification_name), given the list the
\* remote returned: the first record whose name is the same ignoring case,
\* as a one-element sequence, or the empty sequence for None.
classification_exists(listing, name) ==
    LET I == { i \in 1..Len(listing) :
                 Lower(NameOf(listing[i])) = Lower(name) }
    IN IF I = {} THEN <<>>
       ELSE <<listing[CHOOSE i \in I : \A j \in I : i <= j]>>

\* Mutant: an existing record is overwritten whatever the flag says.
ReconcileDecision_AlwaysUpdates(found, update_if_exists) ==
    IF found # <<>> THEN "update" ELSE "create"

\* The branch import_classification takes once the lookup has returned.
ReconcileDecision(found, update_if_exists) ==
    IF found # <<>>
    THEN IF update_if_exists THEN "update" ELSE "skip"
    ELSE "create"

\* The remote store after update_classification(id, payload).
RemoteUpdate(records, i, payload) ==
    [k \in 1..Len(records) |->
        IF records[k]["id"] = i THEN Stored(i, payload) ELSE records[k]]

\* The remote store after import_classification(payload).
RemoteCreate(records, i, payload) == Append(records, Stored(i, payload))

ImportCall(op, i, payload, ok) ==
    [run |-> Len(imported), op |-> op, id |-> i, payload |-> payload,
     ok |-> ok]

ImportIdle ==
    /\ ipc = "off"
    /\ store = <<>>
    /\ next_id = 1
    /\ imported = <<>>
    /\ prepared = <<>>
    /\ existing = <<>>
    /\ icalls = <<>>
    /\ outcomes = <<>>
    /\ snapshots = <<>>
    /\ returned = <<>>

\* The call under way.
Current == imported[Len(imported)]

\* import_classification(client, classification, update_if_exists) is
\* entered: the name is read and the payload prepared.
ImportEnter(c, u) ==
    /\ imported' = Append(imported,
                          [classification |-> c, update_if_exists |-> u])
    /\ prepared' = prepare_classification_for_import(c)
    /\ existing' = <<>>
    /\ ipc' = "exists"
    /\ UNCHANGED <<store, next_id, icalls, outcomes, snapshots, returned,
                   scanVars, exportVars>>

\* import_classification called on its own, for any record and flag.
ImportBegin(R) ==
    /\ ipc = "ready"
    /\ Len(imported) < MaxImports
    /\ \E c \in R, u \in BOOLEAN : ImportEnter(c, u)
    /\ UNCHANGED batchVars

\* The call ends: what it logged, and the remote store it leaves.
ImportEnd(outcome, records) ==
    /\ outcomes' = Append(outcomes, outcome)
    /\ snapshots' = Append(snapshots, records)
    /\ returned' = Append(returned, "None")
    /\ ipc' = "ready"

\* Mutant: a list call that raises is taken for an empty list.
ImportExists_IgnoresFailure ==
    /\ ipc = "exists"
    /\ \E ok \in BOOLEAN :
        /\ icalls' = Append(icalls,
                            ImportCall("get_all_classifications", 0, <<>>, ok))
        /\ existing' = IF ok
                       THEN classification_exists(
                                store, NameOf(Current.classification))
                       ELSE <<>>
        /\ ipc' = "reconcile"
        /\ UNCHANGED <<outcomes, snapshots, returned>>
    /\ UNCHANGED <<store, next_id, imported, prepared, scanVars, exportVars,
                   batchVars>>

\* classification_exists: the remote list is fetched and searched.  An
\* exception is re-raised and caught by import_classification's handler,
\* which logs the failure and returns.
ImportExists ==
    /\ ipc = "exists"
    /\ \E ok \in BOOLEAN :
        /\ icalls' = Append(icalls,
                            ImportCall("get_all_classifications", 0, <<>>, ok))
        /\ IF ok
           THEN /\ existing' = classification_exists(
                                    store, NameOf(Current.classification))
                /\ ipc' = "reconcile"
                /\ UNCHANGED <<outcomes, snapshots, returned>>
           ELSE /\ ImportEnd("failed", store)
                /\ UNCHANGED existing
    /\ UNCHANGED <<store, next_id, imported, prepared, scanVars, exportVars,
                   batchVars>>

\* The rest of the try block: update, skip or create.
ImportReconcile ==
    /\ ipc = "reconcile"
    /\ LET d == ReconcileDecision(existing, Current.update_if_exists)
       IN IF d = "skip"
          THEN /\ ImportEnd("skipped", store)
               /\ UNCHANGED <<store, next_id, icalls>>
          ELSE \E ok \in BOOLEAN, applied \in BOOLEAN :
               /\ ok => applied
               /\ IF d = "update"
                  THEN /\ icalls' = Append(icalls,
                                           ImportCall("update_classification",
                                                      existing[1]["id"],
                                                      prepared, ok))
                       /\ store' = IF applied
                                   THEN RemoteUpdate(store, existing[1]["id"],
                                                     prepared)
                                   ELSE store
                       /\ ImportEnd(IF ok THEN "updated" ELSE "failed", store')
                       /\ UNCHANGED next_id
                  ELSE /\ icalls' = Append(icalls,
                                           ImportCall("import_classification",
                                                      0, prepared, ok))
                       /\ store' = IF applied
                                   THEN RemoteCreate(store, next_id, prepared)
                                   ELSE store
                       /\ next_id' = IF applied THEN next_id + 1 ELSE next_id
                       /\ ImportEnd(IF ok THEN "created" ELSE "failed", store')
    /\ UNCHANGED <<imported, prepared, existing, scanVars, exportVars,
                   batchVars>>

(***************************************************************************)
(* import_all_from_directory: the files of a directory, one after the      *)
(* other.  An entry of the directory is a file that is not *.json, a file  *)
(* that cannot be opened, a file that is not JSON, a JSON object without   *)
(* a name, a JSON value that holds 'name' but is no object (a list or a    *)
(* string), or a JSON object with a name.                                  *)
(***************************************************************************)
EntryKinds ==
    { "other", "unreadable", "invalid_json", "no_name", "not_a_dict",
      "json_ok" }

NoData == Classification(<<>>, "")

Entry(kind, data) == [kind |-> kind, data |-> data]

BatchRecords == { Classification(<<"p">>, "d1"), Exported(<<"P">>, "d1", 2) }

Entries ==
    { Entry(k, NoData) : k \in EntryKinds \ {"json_ok"} }
        \cup { Entry("json_ok", c) : c \in BatchRecords }

Directories == UNION { [1..len -> Entries] : len \in 0..MaxFiles }

\* [f for f in os.listdir(directory) if f.endswith('.json')], as the
\* positions of the files in the directory listing.
RECURSIVE JsonFiles(_, _)
JsonFiles(entries, i) ==
    IF i > Len(entries) THEN <<>>
    ELSE IF entries[i].kind # "other"
         THEN <<i>> \o JsonFiles(entries, i + 1)
         ELSE JsonFiles(entries, i + 1)

\* read_classification_file(filepath): what it does with a file.
ReadResult(entry) ==
    IF entry.kind \in {"unreadable", "invalid_json", "no_name"}
    THEN "raised"
    ELSE "returned"

\* What import_all_from_directory can hand back: None, a list, or counts.
ReturnValue(kind, c, u, sk, f) ==
    [kind |-> kind, created |-> c, updated |-> u, skipped |-> sk,
     failed |-> f]

ReturnsNone == ReturnValue("None", 0, 0, 0, 0)

ReturnsEmptyList == ReturnValue("list", 0, 0, 0, 0)

BatchIdle ==
    /\ bpc = "off"
    /\ is_dir = TRUE
    /\ directory = <<>>
    /\ batch_update = FALSE
    /\ json_files = <<>>
    /\ attempted = <<>>
    /\ batch_return = ReturnsNone

\* import_all_from_directory is entered: the directory test, the list of
\* the JSON files, and the early return when there is none.
BatchStart ==
    /\ bpc = "start"
    /\ IF ~is_dir
       THEN /\ bpc' = "raised"
            /\ UNCHANGED <<json_files, batch_return>>
       ELSE /\ json_files' = JsonFiles(directory, 1)
            /\ IF json_files' = <<>>
               THEN bpc' = "done" /\ batch_return' = ReturnsEmptyList
               ELSE bpc' = "loop" /\ UNCHANGED batch_return
    /\ UNCHANGED <<is_dir, directory, batch_update, attempted, importVars,
                   scanVars, exportVars>>

\* Mutant: an error of a file is logged and raised again.
BatchFile_Aborts ==
    /\ bpc = "loop"
    /\ ipc = "ready"
    /\ Len(attempted) < Len(json_files)
    /\ LET f == json_files[Len(attempted) + 1]
           entry == directory[f]
       IN /\ attempted' = Append(attempted,
                                 [file |-> f, read |-> ReadResult(entry),
                                  caught |-> FALSE])
          /\ IF entry.kind = "json_ok"
             THEN ImportEnter(entry.data, batch_update) /\ UNCHANGED bpc
             ELSE /\ bpc' = "raised"
                  /\ UNCHANGED <<importVars, scanVars, exportVars>>
    /\ UNCHANGED <<is_dir, directory, batch_update, json_files, batch_return>>

\* One turn of the loop: import_classification_from_file reads the file and
\* hands the record to import_classification.  What read_classification_file
\* raises, and what import_classification raises before its try block when
\* the value has no get(), is caught by the loop and logged.
BatchFile ==
    /\ bpc = "loop"
    /\ ipc = "ready"
    /\ Len(attempted) < Len(json_files)
    /\ LET f == json_files[Len(attempted) + 1]
           entry == directory[f]
       IN /\ attempted' = Append(attempted,
                                 [file |-> f, read |-> ReadResult(entry),
                                  caught |-> entry.kind # "json_ok"])
          /\ IF entry.kind = "json_ok"
             THEN ImportEnter(entry.data, batch_update)
             ELSE UNCHANGED <<importVars, scanVars, exportVars>>
    /\ UNCHANGED <<bpc, is_dir, directory, batch_update, json_files,
                   batch_return>>

\* The loop has taken every file: the function ends without a return
\* statement.
BatchEnd ==
    /\ bpc = "loop"
    /\ ipc = "ready"
    /\ Len(attempted) = Len(json_files)
    /\ bpc' = "done"
    /\ batch_return' = ReturnsNone
    /\ UNCHANGED <<is_dir, directory, batch_update, json_files, attempted,
                   importVars, scanVars, exportVars>>

(***************************************************************************)
(* classifications/mcc_export_classification.py                            *)
(*                                                                         *)
(* A character is a one-character string; "U+00E9" stands for the one      *)
(* character e with an acute accent and "U+00B2" for the superscript two,  *)
(* both outside ASCII and both alphanumeric for str.isalnum(); "U+20AC"    *)
(* stands for the euro sign, which is not.                                 *)
(***************************************************************************)
Digits == { "0", "1", "2", "3", "4", "5", "6", "7", "8", "9" }

AsciiAlnum ==
    { LowerAlpha[i] : i \in 1..26 } \cup { UpperAlpha[i] : i \in 1..26 }
        \cup Digits

OtherAlnum == { "U+00E9", "U+00B2" }

\* Mutant: only ASCII letters and digits count as alphanumeric.
IsAlnum_AsciiOnly(c) == c \in AsciiAlnum

\* c.isalnum()
IsAlnum(c) == c \in AsciiAlnum \cup OtherAlnum

\* Mutant: the hyphen is replaced as well.
SafeName_HyphenReplaced(base_name) ==
    [i \in 1..Len(base_name) |->
        IF IsAlnum(base_name[i]) \/ base_name[i] = "_"
        THEN base_name[i] ELSE "_"]

\* "".join(c if c.isalnum() or c in ('-', '_') else '_' for c in base_name)
SafeName(base_name) ==
    [i \in 1..Len(base_name) |->
        IF IsAlnum(base_name[i]) \/ base_name[i] \in {"-", "_"}
        THEN base_name[i] ELSE "_"]

\* datetime.now().strftime("%Y%m%d_%H%M%S") at second t of the run: fifteen
\* characters, the last one the second.
DigitOf(t) ==
    <<"0", "1", "2", "3", "4", "5", "6", "7", "8", "9">>[(t % 10) + 1]

Timestamp(t) ==
    <<"2", "0", "2", "6", "0", "1", "0", "1", "_", "0", "0", "0", "0", "0",
      DigitOf(t)>>

\* create_json_filename(base_name) at second t
create_json_filename(base_name, t) ==
    SafeName(base_name) \o <<"_">> \o Timestamp(t)
        \o <<".", "j", "s", "o", "n">>

ClassificationSuffix ==
    <<"_", "c", "l", "a", "s", "s", "i", "f", "i", "c", "a", "t", "i", "o",
      "n">>

\* A JSON object as json.dump writes it and json.load reads it: its
\* members, one after the other.
FieldOrder ==
    <<"id", "name", "description", "rules", "export_date", "export_org",
      "export_user">>

RECURSIVE MembersFrom(_, _)
MembersFrom(c, i) ==
    IF i > Len(FieldOrder) THEN <<>>
    ELSE IF FieldOrder[i] \in DOMAIN c
         THEN <<[key |-> FieldOrder[i], value |-> c[FieldOrder[i]]]>>
                  \o MembersFrom(c, i + 1)
         ELSE MembersFrom(c, i + 1)

\* json.dump(classification, f)
json_dump(c) == MembersFrom(c, 1)

\* json.load(f)
json_load(members) ==
    [k \in { members[i].key : i \in 1..Len(members) } |->
        members[CHOOSE i \in 1..Len(members) : members[i].key = k].value]

\* Mutant: the export metadata replaces the record instead of joining it.
AddExportMetadata_Only(c, t) ==
    [f \in {"name", "export_date", "export_org", "export_user"} |->
        IF f = "name" THEN c["name"]
        ELSE IF f = "export_date" THEN Timestamp(t)
        ELSE IF f = "export_org" THEN "org" ELSE "user"]

\* classification['export_date'] = ...; ['export_org'] = ...;
\* ['export_user'] = ... in save_classification_to_file
AddExportMetadata(c, t) ==
    [f \in (DOMAIN c) \cup {"export_date", "export_org", "export_user"} |->
        IF f = "export_date" THEN Timestamp(t)
        ELSE IF f = "export_org" THEN "org"
        ELSE IF f = "export_user" THEN "user"
        ELSE c[f]]

\* The names of the remote classifications of the export runs.
ExportNames ==
    { <<"a", " ", "b">>, <<"a", "_", "b">>, <<"A", "-", "9">>,
      <<"U+00E9", "U+20AC">>,
      <<"M", "y", " ", "S", "o", "u", "r", "c", "e", " ", "#", "1">> }

\* An element of the list get_all_classifications returns.
Summary(i, n) == [id |-> i, name |-> n]

ExportListings ==
    UNION { { [k \in 1..len |-> Summary(k, ns[k])] :
                ns \in [1..len -> ExportNames] } : len \in 0..MaxListing }

\* What get_classification_details(id) can return for a listed record: the
\* record alone, or with more fields, one of them named like an export
\* field, or without an id.
DetailKinds == { "plain", "rich", "no_id" }

Details(s, kind) ==
    IF kind = "plain"
    THEN [id |-> s.id, name |-> s.name, description |-> "d0"]
    ELSE IF kind = "rich"
    THEN [id |-> s.id, name |-> s.name, description |-> "d0",
          rules |-> "r", export_org |-> "old"]
    ELSE [name |-> s.name, description |-> "d0"]

NoDetails == [name |-> <<>>]

NoFile == <<>>

ExportIdle ==
    /\ epc = "off"
    /\ elisting = <<>>
    /\ taken = <<>>
    /\ success_count = 0
    /\ failed_count = 0
    /\ disk = <<>>
    /\ wall_clock = 0
    /\ reread = <<>>

\* export_all_classifications is entered: the list is fetched; an exception
\* leaves the function; an empty list ends it with a warning.
ExportStart ==
    /\ epc = "start"
    /\ \E ok \in BOOLEAN :
        IF ~ok THEN epc' = "raised"
        ELSE IF elisting = <<>> THEN epc' = "returned"
        ELSE epc' = "loop"
    /\ UNCHANGED <<elisting, taken, success_count, failed_count, disk, wall_clock,
                   reread, scanVars, importVars, batchVars>>

\* The file system after open(output_path, 'w') and json.dump: a file of
\* that name is replaced.
WriteFile(files, filename, file) ==
    [f \in (DOMAIN files) \cup {filename} |->
        IF f = filename THEN file ELSE files[f]]

\* One turn of the export loop, for every answer of the remote and of the
\* file system.  A dump that fails leaves the file opened for writing, cut
\* short.
ExportItem ==
    /\ epc = "loop"
    /\ Len(taken) < Len(elisting)
    /\ LET k == Len(taken) + 1
           s == elisting[k]
           filename == create_json_filename(s.name \o ClassificationSuffix, wall_clock)
       IN \E fetch \in DetailKinds \cup {"raise"},
             save \in {"ok", "open_fails", "dump_fails"} :
            /\ (fetch = "raise" => save = "ok")
            /\ LET fetched == fetch # "raise"
                   source == IF fetched THEN Details(s, fetch) ELSE NoDetails
                   saved == fetched /\ save = "ok"
               IN /\ taken' = Append(taken,
                                     [id |-> s.id, name |-> s.name,
                                      fetched |-> fetched, saved |-> saved,
                                      source |-> source,
                                      filename |-> IF fetched THEN filename
                                                   ELSE NoFile])
                  /\ disk' =
                        IF fetched /\ save # "open_fails"
                        THEN WriteFile(disk, filename,
                                 [by |-> k, complete |-> saved,
                                  content |->
                                     IF saved
                                     THEN json_dump(
                                              AddExportMetadata(source, wall_clock))
                                     ELSE <<>>])
                        ELSE disk
                  /\ success_count' =
                        IF saved THEN success_count + 1 ELSE success_count
                  /\ failed_count' =
                        IF saved THEN failed_count ELSE failed_count + 1
    /\ \E dt \in 0..1 : wall_clock + dt <= MaxSeconds /\ wall_clock' = wall_clock + dt
    /\ UNCHANGED <<epc, elisting, reread, scanVars, importVars, batchVars>>

\* The loop has taken every listed classification: the summary is logged.
ExportSummary ==
    /\ epc = "loop"
    /\ Len(taken) = Len(elisting)
    /\ epc' = "summary"
    /\ UNCHANGED <<elisting, taken, success_count, failed_count, disk, wall_clock,
                   reread, scanVars, importVars, batchVars>>

\* An exported file is read by read_classification_file and prepared by
\* prepare_classification_for_import, as the importer does.
ExportReadBack ==
    /\ epc = "summary"
    /\ \E f \in DOMAIN disk :
        /\ disk[f].complete
        /\ \A i \in 1..Len(reread) : reread[i].by # disk[f].by
        /\ reread' = Append(reread,
                            [by |-> disk[f].by,
                             payload |-> prepare_classification_for_import(
                                             json_load(disk[f].content))])
    /\ UNCHANGED <<epc, elisting, taken, success_count, failed_count, disk,
                   wall_clock, scanVars, importVars, batchVars>>

(***************************************************************************)
(* Specifications                                                          *)
(***************************************************************************)
Idle ==
    /\ searchResults = NoSearchResults
    /\ resolved = SearchReturn(FALSE, NoAsset, "none")
    /\ launchResponse = NoLaunchResponse
    /\ launched = LaunchReturn(FALSE, NoJobInfo)
    /\ clock = 0
    /\ start_time = 0
    /\ history = <<>>
    /\ monitored = MonitorReturn(FALSE, NoStatus, "none")
    /\ calls = <<>>
    /\ auth = "none"
    /\ usage = "none"
    /\ exit_code = 0
    /\ ImportIdle
    /\ BatchIdle
    /\ ExportIdle

\* The inputs of the whole command: the status, launch and search answers
\* stand for one case each.
MainNames == { <<"a","b">>, NoName }

MainResponses ==
    { SearchResponse("raise", <<>>), SearchResponse("ok", <<>>),
      SearchResponse("ok", <<Asset(<<"A","B">>, 1)>>),
      SearchResponse("ok", <<Asset(<<"a","b","c">>, 1), Asset(<<"a","b">>, 2)>>) }

MainLaunchResponses ==
    { LaunchResponse("job", "J1", "uri"), LaunchResponse("no_job_id", "", ""),
      LaunchResponse("empty_job_id", "", ""),
      LaunchResponse("api500_json", "", ""), LaunchResponse("error", "", "") }

MainOutcomes ==
    { StatusDoc("ok", S_COMPLETED), StatusDoc("ok", S_Partial_Completed),
      StatusDoc("ok", S_FAILED), StatusDoc("ok", S_RUNNING),
      StatusDoc("api_error", <<>>) }

Init ==
    /\ pc = "main"
    /\ argc1 \in BOOLEAN
    /\ sourceName \in MainNames
    /\ flags \in SUBSET CapabilityFlags
    /\ argc1 => flags = {} /\ sourceName = NoName
    /\ no_wait \in BOOLEAN
    /\ poll_interval = 1
    /\ timeout \in {0, 1}
    /\ testClock \in BOOLEAN
    /\ Idle

Next ==
    \/ MainStart
    \/ MainAuth
    \/ SearchCall(MainResponses)
    \/ MainAfterSearch
    \/ LaunchCall(MainLaunchResponses)
    \/ MainAfterLaunch
    \/ MonStart
    \/ MonCheck
    \/ MonFetch(MainOutcomes)
    \/ MonSleep
    \/ MainAfterMonitor
    \/ MainLogUsage

Spec == Init /\ [][Next]_vars

\* search_catalog_source alone, for every name and every answer.
InitSearch ==
    /\ pc = "search"
    /\ argc1 = FALSE
    /\ sourceName \in Names
    /\ flags = {1}
    /\ no_wait = FALSE
    /\ poll_interval = 1
    /\ timeout = 1
    /\ testClock = TRUE
    /\ Idle

NextSearch == SearchCall(AllResponses)

SpecSearch == InitSearch /\ [][NextSearch]_vars

\* execute_catalog_source alone, for every capability set and every answer.
InitLaunch ==
    /\ pc = "launch"
    /\ argc1 = FALSE
    /\ sourceName = <<"a","b">>
    /\ flags \in (SUBSET CapabilityFlags) \ {{}}
    /\ no_wait = FALSE
    /\ poll_interval = 1
    /\ timeout = 1
    /\ testClock = TRUE
    /\ \E a \in {Asset(<<"a","b">>, 1), Asset(<<"a","b","c">>, 2)} :
        /\ searchResults = SearchResponse("ok", <<a>>)
        /\ resolved = SearchReturn(TRUE, a, "none")
    /\ launchResponse = NoLaunchResponse
    /\ launched = LaunchReturn(FALSE, NoJobInfo)
    /\ clock = 0
    /\ start_time = 0
    /\ history = <<>>
    /\ monitored = MonitorReturn(FALSE, NoStatus, "none")
    /\ calls = <<>>
    /\ auth = "ok"
    /\ usage = "none"
    /\ exit_code = 0
    /\ ImportIdle
    /\ BatchIdle
    /\ ExportIdle

NextLaunch == LaunchCall(AllLaunchResponses)

SpecLaunch == InitLaunch /\ [][NextLaunch]_vars

\* The scanner when only the importer runs.
ScanOff ==
    /\ pc = "off"
    /\ argc1 = FALSE
    /\ sourceName = NoName
    /\ flags = {}
    /\ no_wait = FALSE
    /\ poll_interval = 1
    /\ timeout = 1
    /\ testClock = TRUE
    /\ searchResults = NoSearchResults
    /\ resolved = SearchReturn(FALSE, NoAsset, "none")
    /\ launchResponse = NoLaunchResponse
    /\ launched = LaunchReturn(FALSE, NoJobInfo)
    /\ clock = 0
    /\ start_time = 0
    /\ history = <<>>
    /\ monitored = MonitorReturn(FALSE, NoStatus, "none")
    /\ calls = <<>>
    /\ auth = "ok"
    /\ usage = "none"
    /\ exit_code = 0

\* import_classification called up to MaxImports times in a row by one
\* client, for every remote store, record and flag.
InitImport ==
    /\ ScanOff
    /\ ipc = "ready"
    /\ store \in InitialStores
    /\ next_id = Len(store) + 1
    /\ imported = <<>>
    /\ prepared = <<>>
    /\ existing = <<>>
    /\ icalls = <<>>
    /\ outcomes = <<>>
    /\ snapshots = <<store>>
    /\ returned = <<>>
    /\ BatchIdle
    /\ ExportIdle

NextImport ==
    \/ ImportBegin(LocalRecords)
    \/ ImportExists
    \/ ImportReconcile

SpecImport == InitImport /\ [][NextImport]_vars

\* import_all_from_directory, for every directory of up to MaxFiles entries.
BatchStores ==
    { <<>>, <<Stored(1, Classification(<<"p">>, "d0"))>>,
      <<Stored(1, Classification(<<"q">>, "d0"))>> }

InitBatch ==
    /\ ScanOff
    /\ ipc = "ready"
    /\ store \in BatchStores
    /\ next_id = Len(store) + 1
    /\ imported = <<>>
    /\ prepared = <<>>
    /\ existing = <<>>
    /\ icalls = <<>>
    /\ outcomes = <<>>
    /\ snapshots = <<store>>
    /\ returned = <<>>
    /\ bpc = "start"
    /\ is_dir \in BOOLEAN
    /\ directory \in Directories
    /\ batch_update \in BOOLEAN
    /\ json_files = <<>>
    /\ attempted = <<>>
    /\ batch_return = ReturnsNone
    /\ ExportIdle

NextBatch ==
    \/ BatchStart
    \/ BatchFile
    \/ ImportExists
    \/ ImportReconcile
    \/ BatchEnd

SpecBatch == InitBatch /\ [][NextBatch]_vars

\* The importer when only the exporter runs.
ImportOff ==
    /\ ipc = "off"
    /\ store = <<>>
    /\ next_id = 1
    /\ imported = <<>>
    /\ prepared = <<>>
    /\ existing = <<>>
    /\ icalls = <<>>
    /\ outcomes = <<>>
    /\ snapshots = <<>>
    /\ returned = <<>>
    /\ BatchIdle

\* export_all_classifications, for every list of up to MaxListing
\* classifications, followed by the reading back of the files.
InitExport ==
    /\ ScanOff
    /\ ImportOff
    /\ epc = "start"
    /\ elisting \in ExportListings
    /\ taken = <<>>
    /\ success_count = 0
    /\ failed_count = 0
    /\ disk = <<>>
    /\ wall_clock = 0
    /\ reread = <<>>

NextExport ==
    \/ ExportStart
    \/ ExportItem
    \/ ExportSummary
    \/ ExportReadBack

SpecExport == InitExport /\ [][NextExport]_vars

\* monitor_job alone, for every interval, timeout, clock and status source.
InitMonitor ==
    /\ pc = "mon_start"
    /\ argc1 = FALSE
    /\ sourceName = <<"a","b">>
    /\ flags = {1}
    /\ no_wait = FALSE
    /\ poll_interval \in -1..MaxPollInterval
    /\ timeout \in -1..MaxTimeout
    /\ testClock \in BOOLEAN
    /\ searchResults = SearchResponse("ok", <<Asset(<<"a","b">>, 1)>>)
    /\ resolved = SearchReturn(TRUE, Asset(<<"a","b">>, 1), "none")
    /\ launchResponse = LaunchResponse("job", "J1", "")
    /\ launched = LaunchReturn(TRUE, JobInfo("J1", "", <<"a","b">>, 1))
    /\ clock = 0
    /\ start_time = 0
    /\ history = <<>>
    /\ monitored = MonitorReturn(FALSE, NoStatus, "none")
    /\ calls = <<>>
    /\ auth = "ok"
    /\ usage = "none"
    /\ exit_code = 0
    /\ ImportIdle
    /\ BatchIdle
    /\ ExportIdle

NextMonitor ==
    \/ MonStart
    \/ MonCheck
    \/ MonFetch(AllOutcomes)
    \/ MonSleep

SpecMonitor == InitMonitor /\ [][NextMonitor]_vars

\* The interpreter keeps running the loop: it never stops between two steps.
FairSpecMonitor == SpecMonitor /\ WF_vars(NextMonitor)

(***************************************************************************)
(* Vocabulary of the properties                                            *)
(***************************************************************************)
SameIgnoringCase(a, b) ==
    /\ Len(a) = Len(b)
    /\ \A i \in 1..Len(a) : LowerChar(a[i]) = LowerChar(b[i])

SuccessWords == { S_COMPLETED, S_SUCCESS, S_SUCCESSFUL }

PartialWords == { S_PARTIAL_COMPLETED }

FailureWords == { S_FAILED, S_ERROR, S_CANCELLED }

\* The remote answered with a status that is one of the words, in any case.
Observed(doc, words) ==
    /\ doc.kind = "ok"
    /\ \E w \in words : SameIgnoringCase(doc.status, w)

TerminalDoc(doc) == Observed(doc, SuccessWords \cup PartialWords \cup FailureWords)

\* The remote answered, and the job is still going.
StillRunning(doc) == doc.kind \in {"ok", "nokey"} /\ ~TerminalDoc(doc)

LastStatus == IF history = <<>> THEN NoStatus ELSE history[Len(history)]

MonitorDone == pc = "mon_done"

Returned(ok, doc) == monitored.success = ok /\ monitored.status = doc

StatusCalls == { i \in 1..Len(calls) : calls[i].op = "get_job_status" }

(***************************************************************************)
(* C1..C7: monitor_job                                                     *)
(***************************************************************************)
\* C1: when monitor_job has returned, a last observed state of COMPLETED,
\* SUCCESS or SUCCESSFUL (any letter case) gave (True, status), one of
\* PARTIAL_COMPLETED gave (True, status), one of FAILED, ERROR or CANCELLED
\* gave (False, None), a local timeout gave (False, None), and the result is
\* always (True, the last status) or (False, None).
C1_ExitContract ==
    MonitorDone =>
        /\ Observed(LastStatus, SuccessWords) => Returned(TRUE, LastStatus)
        /\ Observed(LastStatus, PartialWords) => Returned(TRUE, LastStatus)
        /\ Observed(LastStatus, FailureWords) => Returned(FALSE, NoStatus)
        /\ monitored.handler = "timeout" => Returned(FALSE, NoStatus)
        /\ Returned(TRUE, LastStatus) \/ Returned(FALSE, NoStatus)
        /\ monitored.success =>
              Observed(LastStatus, SuccessWords \cup PartialWords)

C1_Witness ==
    /\ MonitorDone
    /\ Len(history) = 2
    /\ LastStatus = StatusDoc("ok", S_Partial_Completed)
    /\ Returned(TRUE, LastStatus)

\* C2: a terminal state is only ever the last status fetched: once the
\* status at position k is terminal, the monitor has returned and has issued
\* exactly k get_job_status calls, one per status.
C2_NoPollAfterTerminal ==
    /\ Cardinality(StatusCalls) = Len(history)
    /\ \A k \in 1..Len(history) :
          TerminalDoc(history[k]) =>
              /\ k = Len(history)
              /\ MonitorDone
              /\ Cardinality(StatusCalls) = k

C2_Witness ==
    /\ MonitorDone
    /\ history = << StatusDoc("ok", S_RUNNING), StatusDoc("ok", S_RUNNING),
                    StatusDoc("ok", S_COMPLETED) >>
    /\ Returned(TRUE, LastStatus)
    /\ Cardinality(StatusCalls) = 3
    /\ poll_interval = 0

TimeoutDetected == MonitorDone /\ monitored.handler = "timeout"

\* C3: a status fetch is only reached from a timeout check that found the
\* elapsed time within the timeout, and the step that detects the timeout,
\* like every step after it, issues no get_job_status call.
C3_CheckBeforeFetch ==
    [][ /\ pc' = "mon_fetch" =>
              pc = "mon_check" /\ ~(clock' - start_time' > timeout')
        /\ Len(history') > Len(history) => pc = "mon_fetch"
        /\ TimeoutDetected' => calls' = calls /\ history' = history ]_vars

C3_Witness ==
    /\ TimeoutDetected
    /\ Len(history) = 2
    /\ clock - start_time > timeout

OnePollIntervalTestClock ==
    /\ testClock
    /\ poll_interval > 0
    /\ timeout = poll_interval

NeverTerminal == \A k \in 1..Len(history) : StillRunning(history[k])

\* C4: with the test clock, a positive poll interval and a timeout of one
\* poll interval, monitor_job always returns, and returns (False, None) when
\* no status it fetched was terminal.
C4_TimesOutWithoutRaising ==
    (pc = "mon_start" /\ OnePollIntervalTestClock)
        ~> (MonitorDone /\ (NeverTerminal => Returned(FALSE, NoStatus)))

C4_Witness ==
    /\ OnePollIntervalTestClock
    /\ TimeoutDetected
    /\ NeverTerminal
    /\ Len(history) = 2
    /\ Returned(FALSE, NoStatus)

Raised(doc) == doc.kind \in {"api_error", "error"}

\* C5: a get_job_status call that raised is the last one: the monitor has
\* returned (False, None), as for FAILED, and issued no call after it.
C5_TransportErrorNotRetried ==
    \A k \in 1..Len(history) :
        Raised(history[k]) =>
            /\ k = Len(history)
            /\ Cardinality(StatusCalls) = k
            /\ MonitorDone
            /\ Returned(FALSE, NoStatus)

C5_Witness ==
    /\ MonitorDone
    /\ Len(history) = 2
    /\ Raised(LastStatus)
    /\ Returned(FALSE, NoStatus)

\* C6, as claimed: with timeout < poll_interval the monitor never fetches
\* the status and returns (False, None) from its first iteration.
C6_TimesOutOnFirstIteration ==
    timeout < poll_interval =>
        /\ history = <<>>
        /\ MonitorDone => TimeoutDetected /\ Returned(FALSE, NoStatus)

\* C6, amended: with timeout < poll_interval the monitor fetches the status
\* at most once.  A negative timeout times out on the first iteration, with
\* no fetch; a positive one never does: the first iteration fetches the
\* status, and when that status is not terminal the second iteration times
\* out and returns (False, None).
C6_TimesOutBySecondIteration ==
    timeout < poll_interval =>
        /\ Len(history) <= 1
        /\ MonitorDone /\ timeout < 0 => history = <<>> /\ TimeoutDetected
        /\ MonitorDone /\ timeout > 0 => Len(history) = 1
        /\ MonitorDone /\ history = <<>> => TimeoutDetected
        /\ MonitorDone /\ history # <<>> /\ StillRunning(LastStatus) =>
              TimeoutDetected
        /\ TimeoutDetected => Returned(FALSE, NoStatus)

C6_Witness ==
    /\ timeout = 1
    /\ poll_interval = 2
    /\ TimeoutDetected
    /\ Len(history) = 1
    /\ StillRunning(LastStatus)

\* C7: every remote call monitor_job issues is a get_job_status call for the
\* job it was given, on every path, a timeout included.
C7_OnlyStatusCalls ==
    /\ \A i \in 1..Len(calls) :
          /\ calls[i].op = "get_job_status"
          /\ calls[i].job = launched.job_info.jobId
    /\ Len(calls) = Len(history)

C7_Witness ==
    /\ TimeoutDetected
    /\ Len(calls) = 2
    /\ \A i \in 1..Len(calls) : calls[i].op = "get_job_status"

(***************************************************************************)
(* C8..C10: search_catalog_source                                          *)
(***************************************************************************)
Searched == pc = "searched" /\ searchResults.kind = "ok"

Hits == searchResults.hits

\* The positions of the hits whose name is the target, letter case aside.
ExactMatches == { i \in 1..Len(Hits) : SameIgnoringCase(Hits[i].name, sourceName) }

\* C8: when exactly one hit has the target name, letter case aside, the
\* search returns that hit, wherever it stands in the hit list.
C8_UniqueExactMatchWins ==
    Searched /\ Cardinality(ExactMatches) = 1 =>
        /\ resolved.found
        /\ \A i \in ExactMatches : resolved.asset = Hits[i]

C8_Witness ==
    /\ Searched
    /\ Len(Hits) = 3
    /\ ExactMatches = {3}
    /\ Hits[3].name # sourceName
    /\ resolved.found
    /\ resolved.asset = Hits[3]

\* C9, as claimed: with a non-empty hit list holding no exact match or more
\* than one, the search returns hits[0] and logs the warning.
C9_FirstHitWhenAmbiguous ==
    Searched /\ Hits # <<>> /\ Cardinality(ExactMatches) # 1 =>
        /\ resolved.found
        /\ resolved.asset = Hits[1]
        /\ resolved.log = "warn_no_exact_match"

\* C9, amended: with a non-empty hit list holding no exact match the search
\* returns hits[0] and logs the warning; with more than one exact match it
\* returns the first of them in ranking order and logs no warning.
C9_FirstHitOrFirstExactMatch ==
    Searched /\ Hits # <<>> /\ Cardinality(ExactMatches) # 1 =>
        /\ resolved.found
        /\ ExactMatches = {} =>
              /\ resolved.asset = Hits[1]
              /\ resolved.log = "warn_no_exact_match"
        /\ ExactMatches # {} =>
              /\ \E i \in ExactMatches :
                    /\ resolved.asset = Hits[i]
                    /\ \A j \in ExactMatches : i <= j
              /\ resolved.log = "none"

C9_Witness ==
    /\ Searched
    /\ Len(Hits) = 3
    /\ ExactMatches = {2, 3}
    /\ resolved.asset = Hits[2]
    /\ resolved.log = "none"

ZeroHits == searchResults.kind = "ok" /\ searchResults.total_hits = 0

LaunchCalls == { i \in 1..Len(calls) : calls[i].op = "run_catalog_source_job" }

\* C10: after a search with zero hits the result is (False, None), never a
\* resource, and the command ends with exit code 1 without a launch call.
C10_ZeroHitsNotFound ==
    ZeroHits =>
        /\ ~resolved.found
        /\ resolved.asset = NoAsset
        /\ pc \in {"searched", "exit"}
        /\ pc = "exit" => exit_code = 1
        /\ LaunchCalls = {}

C10_Witness ==
    /\ ZeroHits
    /\ pc = "exit"
    /\ exit_code = 1
    /\ resolved = SearchReturn(FALSE, NoAsset, "warn_not_found")
    /\ LaunchCalls = {}

(***************************************************************************)
(* C11: search_catalog_source, errors                                      *)
(***************************************************************************)
SearchFailed == searchResults.kind \in {"raise", "malformed"}

\* C11: when the search call raised, or the response could not be read, the
\* search has returned (False, None); no exception leaves the function.
C11_SearchErrorsAreCaught ==
    pc = "searched" =>
        /\ ~resolved.raised
        /\ SearchFailed =>
              resolved = SearchReturn(FALSE, NoAsset, "error")

C11_Witness ==
    /\ pc = "searched"
    /\ searchResults.kind = "malformed"
    /\ ~resolved.found
    /\ resolved.asset = NoAsset
    /\ ~resolved.raised

(***************************************************************************)
(* C12..C18: the launch and the command                                    *)
(***************************************************************************)
AfterLaunch ==
    pc \in {"launched", "mon_start", "mon_check", "mon_fetch", "mon_sleep",
            "mon_done", "log_usage"}

Monitoring == pc \in {"mon_start", "mon_check", "mon_fetch", "mon_sleep", "mon_done"}

NoJobIdentifier == launchResponse.kind \in {"no_job_id", "empty_job_id"}

\* C12: a launch that returned success carries a non-empty jobId; an answer
\* without a job id, absent or empty, gave (False, None); monitor_job runs,
\* and asks for a status, only with a non-empty jobId.
C12_JobHandleHasJobId ==
    /\ launched.success => launched.job_info.jobId # ""
    /\ NoJobIdentifier => launched = LaunchReturn(FALSE, NoJobInfo)
    /\ NoJobIdentifier => pc \in {"launched", "exit"}
    /\ Monitoring => launched.job_info.jobId # ""
    /\ \A i \in StatusCalls : calls[i].job # ""

C12_Witness ==
    /\ pc = "exit"
    /\ launchResponse = LaunchResponse("empty_job_id", "", "")
    /\ launched = LaunchReturn(FALSE, NoJobInfo)
    /\ exit_code = 1
    /\ StatusCalls = {}

\* C13: with no capability flag set, no remote call is ever issued, and a
\* command that was given arguments ends with exit code 1.
C13_EmptyCapabilitiesRejected ==
    flags = {} =>
        /\ calls = <<>>
        /\ pc \in {"main", "exit"}
        /\ pc = "exit" /\ ~argc1 => exit_code = 1

C13_Witness ==
    /\ flags = {}
    /\ ~argc1
    /\ pc = "exit"
    /\ exit_code = 1
    /\ calls = <<>>

Requested == { CapabilityNames[f] : f \in flags }

Submitted(i) == { calls[i].caps[k] : k \in 1..Len(calls[i].caps) }

\* C14: each run_catalog_source_job call submits the requested capabilities,
\* each once, none added and none dropped, with the origin of the resource
\* the search returned.
C14_SubmitsRequestedCapabilities ==
    \A i \in LaunchCalls :
        /\ Submitted(i) = Requested
        /\ Len(calls[i].caps) = Cardinality(flags)
        /\ Requested # {}
        /\ resolved.found
        /\ calls[i].origin = resolved.asset.origin

C14_Witness ==
    /\ LaunchCalls # {}
    /\ flags = {2, 7}
    /\ \A i \in LaunchCalls :
          calls[i].caps = <<"Data Profiling", "Lineage Discovery">>
    /\ resolved.asset.origin = 2

\* C15: run_catalog_source_job is called at most once in a run.
C15_NoLaunchRetry == Cardinality(LaunchCalls) <= 1

C15_Witness ==
    /\ pc = "exit"
    /\ launchResponse.kind = "error"
    /\ ~launched.success
    /\ Cardinality(LaunchCalls) = 1
    /\ exit_code = 1

LaunchRaised ==
    launchResponse.kind \in
        {"api500_json", "api500_badjson", "api500_text", "api_other", "error"}

\* C16: when run_catalog_source_job raised, with or without a server message
\* that can be extracted, the launch has returned (False, None) and no
\* exception has left the function.
C16_LaunchErrorsAreCaught ==
    pc = "launched" =>
        /\ ~launched.raised
        /\ LaunchRaised => launched = LaunchReturn(FALSE, NoJobInfo)

C16_Witness ==
    /\ pc = "launched"
    /\ launchResponse.kind = "api500_badjson"
    /\ launched = LaunchReturn(FALSE, NoJobInfo)

SearchCalls == { i \in 1..Len(calls) : calls[i].op = "search_assets" }

\* C17: a launch call comes after a search that returned a resource, a
\* status call after a launch that returned a job handle; a failed
\* resolution is followed by no launch, a failed launch by no status call.
C17_ResolveLaunchMonitorOrder ==
    /\ \A i \in LaunchCalls :
          /\ resolved.found
          /\ \E j \in SearchCalls : j < i
    /\ \A i \in StatusCalls :
          /\ launched.success
          /\ \E j \in LaunchCalls : j < i
    /\ ~resolved.found => LaunchCalls = {}
    /\ ~launched.success => StatusCalls = {}

C17_Witness ==
    /\ pc = "exit"
    /\ Len(calls) = 5
    /\ calls[2].op = "search_assets"
    /\ calls[3].op = "run_catalog_source_job"
    /\ calls[4].op = "get_job_status"
    /\ calls[5].op = "get_job_status"

EveryStepSucceeded ==
    /\ flags # {}
    /\ auth = "ok"
    /\ resolved.found
    /\ launched.success
    /\ no_wait \/ monitored.success
    /\ usage = "ok"

\* C18: the command ends with exit code 0 or 1; with 1 after an empty
\* capability set, an authentication error, a resource not found, a failed
\* launch, a failed or timed-out monitor; with 0 only when it was given no
\* argument at all or every step it ran succeeded.
C18_ExitCodes ==
    pc = "exit" =>
        /\ exit_code \in {0, 1}
        /\ exit_code = 0 <=> (argc1 \/ EveryStepSucceeded)

C18_Witness ==
    /\ pc = "exit"
    /\ exit_code = 1
    /\ monitored.handler = "timeout"
    /\ launched.success
    /\ usage = "none"

(***************************************************************************)
(* Vocabulary of the import properties                                     *)
(***************************************************************************)
\* The finished import_classification calls.
Finished == 1..Len(outcomes)

\* The remote store before and after the k-th call.
StoreBefore(k) == snapshots[k]

StoreAfter(k) == snapshots[k + 1]

\* The records of a store whose name is n, ignoring case.
Matching(records, n) ==
    { i \in 1..Len(records) : SameIgnoringCase(records[i]["name"], n) }

\* The remote calls of the k-th call, as positions of the call log.
CallsOf(k) == { i \in 1..Len(icalls) : icalls[i].run = k }

WriteOps == { "import_classification", "update_classification" }

WritesOf(k) == { i \in CallsOf(k) : icalls[i].op \in WriteOps }

\* The lookup of the k-th call returned a list.
LookedUp(k) ==
    \E i \in CallsOf(k) :
        icalls[i].op = "get_all_classifications" /\ icalls[i].ok

\* The k-th call meets a remote record of the same name and may not update.
MeetsExistingNoUpdate(k) ==
    /\ Matching(StoreBefore(k), imported[k].classification["name"]) # {}
    /\ ~imported[k].update_if_exists

\* C19: when import_classification is called with update_if_exists = False
\* for a record whose name equals, ignoring case, the name of a record of
\* the remote store, the call issues neither a create nor an update, the
\* remote store is the same after the call as before, and, the lookup
\* having returned the list, the call ends as skipped and not as failed.
C19_SkipWritesNothing ==
    \A k \in Finished :
        MeetsExistingNoUpdate(k) =>
            /\ WritesOf(k) = {}
            /\ StoreAfter(k) = StoreBefore(k)
            /\ LookedUp(k) => outcomes[k] = "skipped"

C19_Witness ==
    /\ Len(outcomes) = 1
    /\ MeetsExistingNoUpdate(1)
    /\ imported[1].classification["name"] = <<"p">>
    /\ StoreBefore(1)[1]["name"] = <<"P">>
    /\ outcomes[1] = "skipped"

\* The ids of the records of a store.
IdsOf(records) == { records[i]["id"] : i \in 1..Len(records) }

\* The ids of the records the k-th call created or updated.
TargetIds(k) ==
    { icalls[i].id : i \in { j \in WritesOf(k) :
                                /\ icalls[j].op = "update_classification"
                                /\ icalls[j].ok } }
        \cup (IdsOf(StoreAfter(k)) \ IdsOf(StoreBefore(k)))

\* The k-th call created or updated a record, and the next call imports the
\* same record, both with update_if_exists = True.
ImportedTwice(k) ==
    /\ k \in Finished
    /\ k + 1 \in Finished
    /\ imported[k + 1] = imported[k]
    /\ imported[k].update_if_exists
    /\ outcomes[k] \in {"created", "updated"}

\* C20: when a record is imported twice in a row with update_if_exists =
\* True and the first import created or updated a record, then, whatever
\* the remote store was at the start, every write of the second import is
\* an update of that very record (never a create), the second import whose
\* lookup returned the list issues exactly one such update, and the remote
\* store holds as many records of that name, and as many records in all,
\* after the second import as after the first.
C20_SecondImportUpdatesSameRecord ==
    \A k \in Finished :
        ImportedTwice(k) =>
            LET n == imported[k].classification["name"]
            IN /\ \A i \in WritesOf(k + 1) :
                      /\ icalls[i].op = "update_classification"
                      /\ icalls[i].id \in TargetIds(k)
               /\ LookedUp(k + 1) => Cardinality(WritesOf(k + 1)) = 1
               /\ Cardinality(Matching(StoreAfter(k + 1), n))
                      = Cardinality(Matching(StoreAfter(k), n))
               /\ Len(StoreAfter(k + 1)) = Len(StoreAfter(k))

C20_Witness ==
    /\ ImportedTwice(1)
    /\ Len(StoreBefore(1)) = 1
    /\ outcomes[1] = "created"
    /\ outcomes[2] = "updated"
    /\ Cardinality(Matching(StoreAfter(2),
                            imported[1].classification["name"])) = 1

\* The fields a payload is to carry: those of the record but the export
\* metadata and the id.
ExpectedPayload(c) ==
    [f \in (DOMAIN c) \ {"export_date", "export_org", "export_user", "id"}
        |-> c[f]]

\* The first record of a store whose name is n, ignoring case.
FirstMatch(records, n) ==
    records[CHOOSE i \in Matching(records, n) :
                \A j \in Matching(records, n) : i <= j]

\* C21: once the lookup of an import_classification call has returned the
\* remote list: if no listed record has the name of the imported record,
\* ignoring case, the call issues exactly one write, a create carrying the
\* prepared payload; if one has and update_if_exists is True, it issues
\* exactly one write, an update carrying the prepared payload and aimed at
\* the id of the first such record in list order.  The payload carries no
\* id, so the id of the local record is never the one that picks the target.
C21_ReconcileDecision ==
    \A k \in Finished :
        LookedUp(k) =>
            LET c == imported[k].classification
                M == Matching(StoreBefore(k), c["name"])
            IN /\ M = {} =>
                    /\ Cardinality(WritesOf(k)) = 1
                    /\ \A i \in WritesOf(k) :
                          /\ icalls[i].op = "import_classification"
                          /\ icalls[i].payload = ExpectedPayload(c)
               /\ (M # {} /\ imported[k].update_if_exists) =>
                    /\ Cardinality(WritesOf(k)) = 1
                    /\ \A i \in WritesOf(k) :
                          /\ icalls[i].op = "update_classification"
                          /\ icalls[i].payload = ExpectedPayload(c)
                          /\ icalls[i].id
                                = FirstMatch(StoreBefore(k), c["name"])["id"]
                          /\ "id" \notin DOMAIN icalls[i].payload

\* Two remote records have the name; the local record carries the id of the
\* second one; the first one is updated.
C21_Witness ==
    /\ Len(outcomes) = 1
    /\ LookedUp(1)
    /\ imported[1].update_if_exists
    /\ "id" \in DOMAIN imported[1].classification
    /\ Cardinality(Matching(StoreBefore(1), <<"p">>)) = 2
    /\ imported[1].classification["id"] = 2
    /\ \E i \in WritesOf(1) :
          icalls[i].op = "update_classification" /\ icalls[i].id = 1

(***************************************************************************)
(* Vocabulary of the batch properties                                      *)
(***************************************************************************)
BatchDone == bpc = "done"

BatchRaised == bpc = "raised"

\* The JSON files of the directory that hold a record with a name.
GoodFiles == { i \in 1..Len(json_files) : directory[json_files[i]].kind = "json_ok" }

\* The turns of the loop that ended in the loop's own handler.
CaughtByLoop == { i \in 1..Len(attempted) : attempted[i].caught }

\* C22: import_all_from_directory takes the JSON files of the directory
\* one by one, each once and in list order, whatever fails: a file that
\* cannot be read or is invalid, and a list, create or update call that
\* raises, are logged and the loop goes on, so that when the function ends
\* every file has been attempted and every readable record has been handed
\* to import_classification once.  The only exception that leaves the
\* function is the one for a path that is no directory, before any file.
C22_BatchDoesNotAbort ==
    /\ Len(attempted) <= Len(json_files)
    /\ \A i \in 1..Len(attempted) : attempted[i].file = json_files[i]
    /\ BatchDone =>
          /\ Len(attempted) = Len(json_files)
          /\ Len(imported) = Cardinality(GoodFiles)
          /\ Len(outcomes) = Len(imported)
    /\ BatchRaised => ~is_dir /\ attempted = <<>>
    /\ \A i \in 1..Len(attempted) :
          attempted[i].caught \/ directory[attempted[i].file].kind = "json_ok"

\* A file that is no JSON, then a record whose import fails at a remote
\* call, then a record that is created.
C22_Witness ==
    /\ BatchDone
    /\ Len(attempted) = 3
    /\ attempted[1].read = "raised"
    /\ outcomes = <<"failed", "created">>

\* The finished calls that logged the given outcome.
Logged(o) == { k \in Finished : outcomes[k] = o }

ActionNames ==
    [created |-> "Created", updated |-> "Updated", skipped |-> "Skipped",
     failed |-> "Failed"]

\* C23: every import_classification call returns its own action (Created,
\* Updated, Skipped or Failed), and import_all_from_directory returns the
\* four counts of these actions, every file of the batch counted in
\* exactly one of them, so that they sum to the number of files processed.
\* The code returns None from both functions (and an empty list for a
\* directory without JSON files), so this does not hold.
C23_BatchReturnsCounts ==
    /\ \A k \in Finished : returned[k] = ActionNames[outcomes[k]]
    /\ BatchDone =>
          /\ batch_return.kind = "counts"
          /\ batch_return.created = Cardinality(Logged("created"))
          /\ batch_return.updated = Cardinality(Logged("updated"))
          /\ batch_return.skipped = Cardinality(Logged("skipped"))
          /\ batch_return.failed
                = Cardinality(Logged("failed")) + Cardinality(CaughtByLoop)
          /\ batch_return.created + batch_return.updated
                + batch_return.skipped + batch_return.failed
                = Len(json_files)

\* A batch of one valid file against an empty store: the record is created,
\* and both functions have returned None.
C23_Witness ==
    /\ BatchDone
    /\ Len(json_files) = 1
    /\ outcomes = <<"created">>
    /\ returned = <<"None">>
    /\ batch_return = ReturnsNone

(***************************************************************************)
(* Vocabulary of the export properties                                     *)
(***************************************************************************)
ExportOnlyFields == {"export_date", "export_org", "export_user", "id"}

\* The record as the remote gave it, before the k-th turn exported it.
PreExport(k) == taken[k].source

\* C24: when a record is exported (the remote record with export_date,
\* export_org and export_user set) and the file is read back and prepared
\* for import, the payload has exactly the fields of the record before the
\* export but export_date, export_org, export_user and id, and each of
\* them has the value it had before the export.
C24_ExportPrepareRoundTrip ==
    \A i \in 1..Len(reread) :
        LET payload == reread[i].payload
            before == PreExport(reread[i].by)
        IN /\ DOMAIN payload = (DOMAIN before) \ ExportOnlyFields
           /\ \A f \in DOMAIN payload : payload[f] = before[f]

\* A record with an id, a field of its own and a field named like an
\* export field has been exported and prepared.
C24_Witness ==
    \E i \in 1..Len(reread) :
        /\ DOMAIN PreExport(reread[i].by)
              = {"id", "name", "description", "rules", "export_org"}
        /\ DOMAIN reread[i].payload = {"name", "description", "rules"}
        /\ reread[i].payload["rules"] = "r"

\* The characters [A-Za-z0-9_-].
AsciiSafe == AsciiAlnum \cup {"-", "_"}

\* The turns of the export loop that made a file name.
Named == { k \in 1..Len(taken) : taken[k].fetched }

\* The base name the k-th turn gave to create_json_filename.
BaseName(k) == taken[k].name \o ClassificationSuffix

\* The file name of the k-th turn is its base name, character by character
\* kept when in the set and replaced by '_' otherwise, then '_', a
\* timestamp of fifteen characters and ".json".
SanitizedBy(keep, k) ==
    LET base == BaseName(k)
        filename == taken[k].filename
        n == Len(base)
    IN /\ Len(filename) = n + 21
       /\ \A i \in 1..n :
             filename[i] = (IF base[i] \in keep THEN base[i] ELSE "_")
       /\ filename[n + 1] = "_"
       /\ \E t \in 0..MaxSeconds :
             SubSeq(filename, n + 2, n + 16) = Timestamp(t)
       /\ SubSeq(filename, n + 17, n + 21) = <<".", "j", "s", "o", "n">>

\* C25 as stated: create_json_filename keeps the characters [A-Za-z0-9_-]
\* of the base name and replaces every other character by '_', position
\* by position, and appends "_{timestamp}.json".  A letter or digit outside
\* ASCII is kept by the code, so this does not hold.
C25_ReplacesOutsideAsciiSet == \A k \in Named : SanitizedBy(AsciiSafe, k)

\* C25, amended: create_json_filename keeps every character of the base
\* name that str.isalnum() accepts, letters and digits outside ASCII
\* included, and '-' and '_'; it replaces every other character by '_',
\* position by position, so that the sanitized name is as long as the base
\* name; "_{timestamp}.json" follows.  "My Source #1" becomes
\* "My_Source__1".
C25_ReplacesNonAlnum ==
    /\ \A k \in Named : SanitizedBy(AsciiSafe \cup OtherAlnum, k)
    /\ \A k \in Named :
          taken[k].name
              = <<"M", "y", " ", "S", "o", "u", "r", "c", "e", " ", "#", "1">>
          => SubSeq(taken[k].filename, 1, 12)
                = <<"M", "y", "_", "S", "o", "u", "r", "c", "e", "_", "_", "1">>

\* A name of a letter outside ASCII and a sign outside ASCII: the letter is
\* kept, the sign replaced.
C25_Witness ==
    \E k \in Named :
        /\ taken[k].name = <<"U+00E9", "U+20AC">>
        /\ SubSeq(taken[k].filename, 1, 3) = <<"U+00E9", "_", "_">>

\* No two records of the store have the same name, ignoring case.
UniqueNames(records) ==
    \A i, j \in 1..Len(records) :
        SameIgnoringCase(records[i]["name"], records[j]["name"]) => i = j

\* C26: if no two records of the remote store have the same name ignoring
\* case when the importer starts, and the importer is the only writer, then
\* after any sequence of import_classification calls, whatever the records
\* and the flags and whichever remote calls fail (a failed write carried
\* out by the remote or not), no two records of the store have the same
\* name ignoring case.
C26_NamesStayUnique ==
    (ipc # "off" /\ UniqueNames(snapshots[1])) =>
        /\ UniqueNames(store)
        /\ \A k \in 1..Len(snapshots) : UniqueNames(snapshots[k])

\* Two calls on a store of one record: one created a record, one rewrote
\* the name of a record in another case, and a remote call failed.
C26_Witness ==
    /\ Len(outcomes) = 2
    /\ Len(snapshots[1]) = 1
    /\ UniqueNames(snapshots[1])
    /\ Len(store) = 2
    /\ \E i \in 1..Len(icalls) : ~icalls[i].ok
    /\ \E i \in 1..Len(store) : store[i]["name"] # snapshots[1][1]["name"]
                                   /\ store[i]["id"] = 1

\* The import_classification calls started so far.
Started == 1..Len(imported)

ListCallsOf(k) ==
    { i \in CallsOf(k) : icalls[i].op = "get_all_classifications" }

\* C27: every import_classification call goes through the states of one
\* record: it lists the remote records exactly once and before any write;
\* it issues at most one write, a create or an update; a remote call that
\* raises, be it the list, the create or the update, is the last remote
\* call for the record and the record ends as failed; so a list call that
\* raises is followed by no write.  A record ends as created or updated
\* only after the one write of that kind has returned, and as skipped only
\* without any write.
C27_RecordStateMachine ==
    /\ \A k \in Started :
          /\ Cardinality(ListCallsOf(k)) <= 1
          /\ Cardinality(WritesOf(k)) <= 1
          /\ \A w \in WritesOf(k) :
                \E l \in ListCallsOf(k) : l < w /\ icalls[l].ok
          /\ \A i \in CallsOf(k) :
                ~icalls[i].ok => \A j \in CallsOf(k) : j <= i
    /\ \A k \in Finished :
          /\ Cardinality(ListCallsOf(k)) = 1
          /\ (\E i \in CallsOf(k) : ~icalls[i].ok) <=> outcomes[k] = "failed"
          /\ outcomes[k] = "skipped" => WritesOf(k) = {}
          /\ outcomes[k] = "created" =>
                \E w \in WritesOf(k) : icalls[w].op = "import_classification"
          /\ outcomes[k] = "updated" =>
                \E w \in WritesOf(k) : icalls[w].op = "update_classification"

\* One record failed at the list call and issued no write; the next failed
\* at its write.
C27_Witness ==
    /\ Len(outcomes) = 2
    /\ outcomes = <<"failed", "failed">>
    /\ WritesOf(1) = {}
    /\ Cardinality(WritesOf(2)) = 1

(***************************************************************************)
(* Polls and sleeps of monitor_job                                         *)
(***************************************************************************)
\* The clock moves by exactly poll_interval per sleep and not otherwise,
\* the interval is positive and the timeout not negative.
SteadyClock == testClock /\ poll_interval > 0 /\ timeout >= 0

Elapsed == clock - start_time

\* Under a steady clock every sleep adds one interval to the elapsed time.
Sleeps == Elapsed \div poll_interval

Polls == Cardinality(StatusCalls)

PollBound == (timeout \div poll_interval) + 1

\* C28: under a clock that moves by exactly poll_interval per sleep and not
\* during a status fetch, with poll_interval > 0 and timeout >= 0,
\* monitor_job sleeps exactly once between two polls (before the n-th poll
\* it has slept n - 1 times), does not sleep after the poll that ends the
\* monitoring, and issues at most floor(timeout / poll_interval) + 1
\* get_job_status calls: it polls only while the elapsed time is at most
\* the timeout, the elapsed time equal to the timeout included, and reports
\* a timeout only once the elapsed time exceeds the timeout.
C28_PollCountBound ==
    (SteadyClock /\ Monitoring /\ pc # "mon_start") =>
        /\ Polls = Len(history)
        /\ Elapsed % poll_interval = 0
        /\ Polls <= PollBound
        /\ pc = "mon_check" => Sleeps = Polls
        /\ pc = "mon_fetch" =>
              /\ Sleeps = Polls
              /\ Elapsed <= timeout
              /\ Polls + 1 <= PollBound
        /\ pc = "mon_sleep" => Sleeps = Polls - 1
        /\ pc = "mon_done" =>
              IF monitored.handler = "timeout"
              THEN Sleeps = Polls /\ Elapsed > timeout
              ELSE Sleeps = Polls - 1

\* The poll at the very moment the timeout is reached: with an interval of
\* one second and a timeout of two, the third poll is issued at two seconds
\* and the timeout is reported at three.
C28_Witness ==
    /\ SteadyClock
    /\ poll_interval = 1
    /\ timeout = 2
    /\ TimeoutDetected
    /\ Polls = 3
    /\ Elapsed = 3

(***************************************************************************)
(* The --no-wait mode of the scan command                                  *)
(***************************************************************************)
Exited == pc = "exit"

LaunchFailed == LaunchCalls # {} /\ pc \notin {"launch", "launched"}
                    /\ ~launched.success

\* The command never asks for the job status and never enters monitor_job.
NeverMonitors == StatusCalls = {} /\ ~Monitoring

\* C29 as stated: with --no-wait, after a successful launch the command
\* issues no get_job_status call and ends with success; after a failed
\* launch it ends with exit code 1, as in wait mode.  The usage log that
\* follows the launch can still raise and end the command with exit code
\* 1, so this does not hold.
C29_NoWaitEndsWithSuccess ==
    /\ no_wait => NeverMonitors
    /\ (Exited /\ no_wait /\ launched.success) => exit_code = 0
    /\ (Exited /\ LaunchFailed) => exit_code = 1

\* C29, amended: with --no-wait, after a successful launch the command
\* issues no get_job_status call, never enters monitor_job, and goes on to
\* the usage log; it ends with exit code 0 when that call returns and with
\* exit code 1 when it raises.  After a failed launch it ends with exit
\* code 1 without a status call, with or without --no-wait.
C29_NoWaitSkipsMonitoring ==
    /\ no_wait => NeverMonitors
    /\ (Exited /\ no_wait /\ launched.success) =>
          /\ usage # "none"
          /\ exit_code = 0 <=> usage = "ok"
    /\ (Exited /\ LaunchFailed) =>
          /\ exit_code = 1
          /\ StatusCalls = {}
          /\ usage = "none"

C29_Witness ==
    /\ Exited
    /\ no_wait
    /\ launched.success
    /\ LaunchCalls # {}
    /\ StatusCalls = {}
    /\ exit_code = 0

(***************************************************************************)
(* The counters of export_all_classifications                              *)
(***************************************************************************)
ExportSummarised == epc = "summary"

\* The files of the output directory.
FilesOnDisk == DOMAIN disk

\* C30: export_all_classifications takes every classification of the list
\* once and in list order, a classification that cannot be fetched or saved
\* not stopping the loop; when the summary is logged, success_count plus
\* failed_count is the number of listed classifications and success_count
\* is the number of files written.  Two classifications whose names are
\* sanitized to the same text and are exported within one second get the
\* same file name, and the second export replaces the first, so the last
\* part does not hold.
C30_ExportCounts ==
    /\ Len(taken) <= Len(elisting)
    /\ \A i \in 1..Len(taken) :
          taken[i].id = elisting[i].id /\ taken[i].name = elisting[i].name
    /\ ExportSummarised =>
          /\ Len(taken) = Len(elisting)
          /\ success_count + failed_count = Len(elisting)
          /\ success_count = Cardinality(FilesOnDisk)

\* Two classifications of different names have been fetched and saved, both
\* counted as successes, and the output directory holds one file.
C30_Witness ==
    /\ ExportSummarised
    /\ Len(taken) = 2
    /\ taken[1].name = <<"a", " ", "b">>
    /\ taken[2].name = <<"a", "_", "b">>
    /\ success_count = 2
    /\ failed_count = 0
    /\ Cardinality(FilesOnDisk) = 1
    /\ \A f \in FilesOnDisk : disk[f].by = 2

=============================================================================
